---- MODULE Spec2Model ----
(***************************************************************************)
(* A model of scripts/update_substack_feed.py: the transport (fetch, with  *)
(* its retry loop and backoff), the payload sniffing and the three         *)
(* normalizers (parse_archive, parse_rss in its RSS and Atom branches),    *)
(* the atomic writer (write_json) and the candidate fallback of main().    *)
(*                                                                         *)
(* Byte strings are sequences of chunks: a body is its leading chunks      *)
(* (whitespace, then the first token), whether the challenge marker occurs *)
(* in it, and the document the rest of the bytes spell.  Durations are     *)
(* floats with Prec significand bits, counted in units of 2^-(Prec-1) s.   *)
(***************************************************************************)
EXTENDS Integers, Sequences, FiniteSets, TLC

\* ------------------------------------------------------------- bounds
\* Significand bits of the floats of the model (IEEE double has 53).
Prec == 3
\* Largest max_retries a direct call of fetch is given (SpecFetch).
MaxRetriesArg == 3
\* Most entries of a payload handed to a parser (SpecParse).
MaxEntries == 7

\* ---------------------------------------------------------- constants
\* fetch(url, max_retries=3)
DefaultMaxRetries == 3
\* curl exit code 22 = HTTP error (with -f)
CurlHttpError == 22
\* the status every urllib.error.HTTPError of fetch carries
HttpForbidden == 403

Pow2(n) == 2 ^ n

\* ------------------------------------------------------------- bytes
Whitespace == {" ", "\n"}

RECURSIVE lstrip(_)
\* bytes.lstrip() on the leading chunks of a body
lstrip(s) ==
    IF s # <<>> /\ Head(s) \in Whitespace THEN lstrip(Tail(s)) ELSE s

\* bytes.startswith(prefix): the first chunk is the prefix
startswith(s, prefix) == s # <<>> /\ Head(s) = prefix

\* The document a parser finds in the bytes (none for a body no parser is
\* given a chance to read).
NoDoc == [kind |-> "none", channel |-> FALSE, title |-> "None", link |-> "None",
          items |-> <<>>]

NoBody == [lead |-> <<"None">>, marker |-> FALSE, doc |-> NoDoc]

\* ---------------------------------------------------------- exceptions
\* An exception object: its class, the HTTP status it carries (0: none), and
\* the attempt whose observation it was built from (-1: none).
Exc(cls, code, attempt) == [cls |-> cls, code |-> code, attempt |-> attempt]
NoExc == Exc("None", 0, -1)

\* IsException for a handler that reads `except RuntimeError`
IsRuntimeError(cls) == cls = "RuntimeError"

\* Classes `except Exception` catches: every class raised here but the
\* BaseException ones (KeyboardInterrupt, SystemExit).
IsException(cls) == cls \notin {"None", "KeyboardInterrupt", "SystemExit"}

\* ------------------------------------------------------------- text
\* Python's None, where a value may be missing (a missing element, a
\* missing or null JSON field, an unset local).
None == "None"

\* str.strip() on the texts of the model
strip(s) ==
    CASE s = " Post A " -> "Post A"
      [] s = "  " -> ""
      [] s = " https://x/img.png " -> "https://x/img.png"
      [] OTHER -> s

\* text(el): "" for a missing element or one without text, else its text
\* stripped
text(el) == IF el = None THEN "" ELSE strip(el)

\* email.utils.parsedate_to_datetime on the dates of the model: whether the
\* string parses, the UTC offset it names (None: a naive datetime) and the
\* same instant in UTC
parsedate_to_datetime(s) ==
    CASE s = "Tue, 02 Jan 2024 10:00:00 +0200" ->
            [ok |-> TRUE, tz |-> "+02:00", wall |-> "2024-01-02T10:00:00",
             utc |-> "2024-01-02T08:00:00"]
      [] s = "Tue, 02 Jan 2024 10:00:00 GMT" ->
            [ok |-> TRUE, tz |-> "+00:00", wall |-> "2024-01-02T10:00:00",
             utc |-> "2024-01-02T10:00:00"]
      [] s = "Tue, 02 Jan 2024 10:00:00" ->
            [ok |-> TRUE, tz |-> None, wall |-> "2024-01-02T10:00:00",
             utc |-> "2024-01-02T10:00:00"]
      [] OTHER -> [ok |-> FALSE, tz |-> None, wall |-> "", utc |-> ""]

\* parse_pubdate: "" for an empty or unparsable date, else the instant as
\* UTC ISO-8601 (a naive datetime is taken to be UTC)
parse_pubdate(pubdate) ==
    IF pubdate = "" THEN ""
    ELSE LET dt == parsedate_to_datetime(pubdate)
         IN  IF ~dt.ok THEN ""
             ELSE IF dt.tz = None THEN dt.wall \o "+00:00"
             ELSE dt.utc \o "+00:00"

\* The text of a content:encoded element: the tags of its HTML in order,
\* each with its name and its attributes <<name, value>> (all values quoted)
Tag(name, attrs) == [name |-> name, attrs |-> attrs]
\* The content:encoded child of an item: missing, or there with its text
NoContent == [present |-> FALSE, tags |-> <<>>]
Html(tags) == [present |-> TRUE, tags |-> tags]

\* Attribute names of the model whose text ends with "src": the pattern
\* does not anchor the name, so src=" matches inside data-src=" too
SrcSuffixed == {"src", "data-src"}

\* The match of [^>]+src=["\']([^"\']+)["\'] inside one tag: the greedy
\* [^>]+ leaves the last attribute of the tag whose name ends with src and
\* whose value is not empty; None without one
tag_match(tag) ==
    LET hits == {i \in 1..Len(tag.attrs) :
                   tag.attrs[i][1] \in SrcSuffixed /\ tag.attrs[i][2] # ""}
    IN  IF tag.name # "img" \/ hits = {} THEN None
        ELSE tag.attrs[CHOOSE i \in hits : \A j \in hits : j <= i][2]

\* re.search(r'<img[^>]+src=["\']([^"\']+)["\']', html): group 1 of the
\* leftmost match, which lies in the first tag the pattern matches in, or
\* None
img_match(html) ==
    LET hits == {i \in 1..Len(html) : tag_match(html[i]) # None}
    IN  IF hits = {} THEN None
        ELSE tag_match(html[CHOOSE i \in hits : \A j \in hits : i <= j])

\* extract_cover_image(item): the enclosure's url attribute when it is not
\* empty after stripping, else the first image of content:encoded, else ""
extract_cover_image(item) ==
    LET url == IF item.enclosure = None THEN "" ELSE strip(item.enclosure)
    IN  IF item.enclosure # None /\ url # "" THEN url
        ELSE IF item.content.present /\ item.content.tags # <<>>
                /\ img_match(item.content.tags) # None
             THEN img_match(item.content.tags)
        ELSE ""

\* ------------------------------------------------------- normalizers
FEED_URL == "https://drinkyouroj.substack.com/feed"
\* ARCHIVE_URL_TEMPLATE.format(limit=limit), limit = 6
ARCHIVE_URL == "https://drinkyouroj.substack.com/api/v1/archive?limit=6"
\* limit = 6 in main()
limit == 6

\* Slice with the bound off by one: items[:n + 1]
SliceInclusive(items, n) ==
    SubSeq(items, 1, IF Len(items) < n + 1 THEN Len(items) ELSE n + 1)

\* items[:n] for n >= 0
Slice(items, n) == SubSeq(items, 1, IF Len(items) < n THEN Len(items) ELSE n)

\* The post of one RSS item
rss_post(it) ==
    [title |-> text(it.title),
     subtitle |-> text(it.description),
     url |-> text(it.link),
     date |-> parse_pubdate(text(it.pubDate)),
     cover_image |-> extract_cover_image(it)]

\* The post of one Atom entry (link: the href attribute of the link element,
\* "" without the attribute, None without the element)
atom_post(e) ==
    [title |-> text(e.title),
     subtitle |-> text(e.summary),
     url |-> strip(IF e.link # None THEN e.link ELSE ""),
     date |-> text(e.updated),
     cover_image |-> ""]

\* Or that falls through on None only: x if x is not None else y
OrNotNone(x, y) == IF x # None THEN x ELSE y

\* x or y
Or(x, y) == IF x \notin {None, ""} THEN x ELSE y

\* A key a JSON object does not have
Missing == "Missing"
\* it.get(key): None for a key that is missing, else its value (None: null)
get(it, key) == IF it[key] = Missing THEN None ELSE it[key]

\* The post of one object of the JSON archive
archive_post(it) ==
    LET url == Or(get(it, "canonical_url"), "")
    IN  [title |-> Or(get(it, "title"), "Untitled"),
         subtitle |-> Or(get(it, "subtitle"), Or(get(it, "description"), "")),
         url |-> IF url = "" /\ get(it, "slug") \notin {None, ""}
                 THEN "https://drinkyouroj.substack.com/p/" \o it["slug"]
                 ELSE url,
         date |-> Or(get(it, "post_date"), ""),
         cover_image |-> Or(get(it, "cover_image"), "")]

RECURSIVE rss_loop(_, _)
\* for it in items[:limit]: posts.append(post)
rss_loop(items, posts) ==
    IF items = <<>> THEN posts
    ELSE rss_loop(Tail(items), Append(posts, rss_post(Head(items))))

RECURSIVE atom_loop(_, _)
\* for e in entries[:limit]: posts.append({...})
atom_loop(entries, posts) ==
    IF entries = <<>> THEN posts
    ELSE atom_loop(Tail(entries), Append(posts, atom_post(Head(entries))))

RECURSIVE archive_loop(_, _)
\* for it in items[:limit]: posts.append({...})
archive_loop(items, posts) ==
    IF items = <<>> THEN posts
    ELSE archive_loop(Tail(items), Append(posts, archive_post(Head(items))))

\* The snapshot no parser has built (data = None)
NoData == [source |-> None]

\* What a call returns or raises: exc = NoExc and the value, or the exception
Returned(value) == [exc |-> NoExc, value |-> value]
Raised(cls, none) == [exc |-> Exc(cls, 0, -1), value |-> none]

\* ET.fromstring(xml_bytes) fails on bytes that are not one well-formed XML
\* document, and on an XML declaration that whitespace precedes
xml_wellformed(payload) ==
    /\ payload.doc.kind = "xml"
    /\ ~(payload.lead # <<>> /\ Head(payload.lead) \in Whitespace
         /\ startswith(lstrip(payload.lead), "<?xml"))

\* parse_rss that dates a post without a date with the time of the run
parse_rss_dated(payload, n, now) ==
    LET Dated(posts) == [j \in 1..Len(posts) |->
                           IF posts[j].date = "" THEN [posts[j] EXCEPT !.date = now]
                           ELSE posts[j]]
    IN  IF ~xml_wellformed(payload) THEN Raised("ParseError", NoData)
        ELSE IF ~payload.doc.channel
        THEN Returned([source |-> FEED_URL, updated_at |-> now,
                       posts |-> Dated(atom_loop(Slice(payload.doc.items, n), <<>>))])
        ELSE Returned([source |-> FEED_URL,
                       feed_title |-> text(payload.doc.title),
                       feed_url |-> text(payload.doc.link),
                       updated_at |-> now,
                       posts |-> Dated(rss_loop(Slice(payload.doc.items, n), <<>>))])

\* parse_rss(xml_bytes, limit) at time now: the RSS branch when the root has
\* a channel child, else the Atom branch
parse_rss(payload, n, now) ==
    IF ~xml_wellformed(payload) THEN Raised("ParseError", NoData)
    ELSE IF ~payload.doc.channel
    THEN Returned([source |-> FEED_URL, updated_at |-> now,
                   posts |-> atom_loop(Slice(payload.doc.items, n), <<>>)])
    ELSE Returned([source |-> FEED_URL,
                   feed_title |-> text(payload.doc.title),
                   feed_url |-> text(payload.doc.link),
                   updated_at |-> now,
                   posts |-> rss_loop(Slice(payload.doc.items, n), <<>>)])

\* parse_archive that reads the posts of a JSON object: items = items["posts"]
\* (none in the objects of the model)
parse_archive_of_object(payload, n, now) ==
    IF payload.doc.kind \notin {"json_array", "json_object"}
    THEN Raised("JSONDecodeError", NoData)
    ELSE IF \E j \in 1..Len(Slice(payload.doc.items, n)) : ~payload.doc.items[j].obj
    THEN Raised("AttributeError", NoData)
    ELSE Returned([source |-> ARCHIVE_URL,
                   feed_title |-> "The Civic Node",
                   feed_url |-> "https://drinkyouroj.substack.com",
                   updated_at |-> now,
                   posts |-> archive_loop(Slice(payload.doc.items, n), <<>>)])

\* parse_archive(json_bytes, limit) at time now.  json.loads fails on
\* malformed JSON; slicing a JSON object fails (TypeError, KeyError from
\* Python 3.12 on); an element without .get fails when the loop reaches it.
parse_archive(payload, n, now) ==
    IF payload.doc.kind \notin {"json_array", "json_object"}
    THEN Raised("JSONDecodeError", NoData)
    ELSE IF payload.doc.kind = "json_object" THEN Raised("TypeError", NoData)
    ELSE IF \E j \in 1..Len(Slice(payload.doc.items, n)) : ~payload.doc.items[j].obj
    THEN Raised("AttributeError", NoData)
    ELSE Returned([source |-> ARCHIVE_URL,
                   feed_title |-> "The Civic Node",
                   feed_url |-> "https://drinkyouroj.substack.com",
                   updated_at |-> now,
                   posts |-> archive_loop(Slice(payload.doc.items, n), <<>>)])

\* ------------------------------------------------------------ inputs
\* Objects of the JSON archive: a full one, the one of the spec's scenario 3,
\* and an array element that is no object
J1 == [obj |-> TRUE, title |-> "Post A", subtitle |-> "Sub A", description |-> None,
       canonical_url |-> "https://drinkyouroj.substack.com/p/a", slug |-> "a",
       post_date |-> "2024-01-02T08:00:00.000Z", cover_image |-> None]
J2 == [obj |-> TRUE, title |-> None, subtitle |-> None, description |-> "Desc B",
       canonical_url |-> None, slug |-> "foo", post_date |-> None,
       cover_image |-> "https://x/img.png"]
JBad == [obj |-> FALSE, title |-> None, subtitle |-> None, description |-> None,
         canonical_url |-> None, slug |-> None, post_date |-> None,
         cover_image |-> None]

\* The values a field of an archive object takes: no such key, null, the
\* empty string, or the text v
FieldValues(v) == {Missing, None, "", v}

\* Archive objects that differ in what their fallback chains find
ChainItems ==
    [obj : {TRUE}, title : FieldValues("Post A"), subtitle : FieldValues("Sub A"),
     description : FieldValues("Desc A"),
     canonical_url : FieldValues("https://example.com/a"),
     slug : FieldValues("foo"), post_date : {Missing}, cover_image : {None}]

\* RSS items
R1 == [title |-> " Post A ", description |-> "Sub A",
       link |-> "https://drinkyouroj.substack.com/p/a",
       pubDate |-> "Tue, 02 Jan 2024 10:00:00 +0200",
       enclosure |-> "https://x/img.png", content |-> NoContent]
R2 == [title |-> None, description |-> None, link |-> None,
       pubDate |-> "not a date", enclosure |-> None,
       content |-> Html(<<Tag("p", <<>>),
                          Tag("img", <<<<"src", "https://y/pic.jpg">>>>)>>)]

\* The enclosure of an item: no element (None), or its url attribute ("":
\* the element has none)
Enclosures == {None, "", "  ", " https://x/img.png "}

\* The content:encoded of an item: none, empty, without an image, with one
\* or two images, with an image whose src is missing or empty before one
\* that has it, and with a lazily loaded image (src and data-src)
Contents ==
    {NoContent, Html(<<>>), Html(<<Tag("p", <<>>)>>),
     Html(<<Tag("p", <<>>), Tag("img", <<<<"src", "https://y/pic.jpg">>>>)>>),
     Html(<<Tag("img", <<<<"src", "https://y/1.jpg">>, <<"alt", "one">>>>),
            Tag("img", <<<<"src", "https://y/2.jpg">>>>)>>),
     Html(<<Tag("img", <<<<"alt", "one">>>>),
            Tag("img", <<<<"src", "https://y/2.jpg">>>>)>>),
     Html(<<Tag("img", <<<<"src", "">>>>),
            Tag("img", <<<<"src", "https://y/2.jpg">>>>)>>),
     Html(<<Tag("img", <<<<"data-src", "https://y/lazy.jpg">>,
                         <<"src", "https://y/pic.jpg">>>>)>>),
     Html(<<Tag("img", <<<<"src", "https://y/pic.jpg">>,
                         <<"data-src", "https://y/lazy.jpg">>>>)>>)}

\* RSS items that differ in where a cover image can come from
CoverItems ==
    {[title |-> "Post A", description |-> None, link |-> None, pubDate |-> None,
      enclosure |-> e, content |-> c] : e \in Enclosures, c \in Contents}

\* Atom entries
A1 == [title |-> "Post A", link |-> "https://drinkyouroj.substack.com/p/a",
       updated |-> "2024-01-02T08:00:00Z", summary |-> None]
A2 == [title |-> " Post A ", link |-> None, updated |-> None, summary |-> "Sub A"]

JsonArray(items) == [kind |-> "json_array", channel |-> FALSE, title |-> None,
                     link |-> None, items |-> items]
JsonObject == [kind |-> "json_object", channel |-> FALSE, title |-> None,
               link |-> None, items |-> <<>>]
RssDoc(title, link, items) == [kind |-> "xml", channel |-> TRUE, title |-> title,
                               link |-> link, items |-> items]
\* An XML document whose root has no channel child: its Atom entries
AtomDoc(entries) == [kind |-> "xml", channel |-> FALSE, title |-> None,
                     link |-> None, items |-> entries]
Malformed == [kind |-> "malformed", channel |-> FALSE, title |-> None,
              link |-> None, items |-> <<>>]

\* The leading chunks a document of each kind can follow
LeadsOf(doc) ==
    CASE doc.kind = "json_array" -> {<<"[">>, <<" ", "[">>}
      [] doc.kind = "json_object" -> {<<"{">>, <<"\n", "{">>}
      [] doc.kind = "xml" /\ doc.channel -> {<<"<?xml">>, <<"\n", "<rss">>, <<" ", "<?xml">>}
      [] doc.kind = "xml" /\ ~doc.channel -> {<<"<?xml">>, <<"<feed">>}
      [] doc.kind = "malformed" -> {<<"[">>, <<"{">>, <<"<rss">>}
      [] OTHER -> {<<>>, <<"<!DOCTYPE">>, <<"<html">>, <<" ", "<html">>,
                   <<"<!doctype">>, <<"text">>}

\* The documents upstream serves in the runs of the model
Docs ==
    {JsonArray(<<>>), JsonArray(<<J1, J2>>), JsonArray(<<JBad>>), JsonObject,
     RssDoc("The Civic Node", "https://drinkyouroj.substack.com", <<R1, R2>>),
     RssDoc(None, None, <<>>),
     AtomDoc(<<>>), AtomDoc(<<A1, A2>>), Malformed, NoDoc}

\* The response bodies of the model
Bodies ==
    UNION {[lead : LeadsOf(d), marker : {FALSE}, doc : {d}] : d \in Docs}
    \cup UNION {[lead : LeadsOf(d), marker : {TRUE}, doc : {d}] :
                  d \in {NoDoc, JsonArray(<<J1, J2>>), JsonObject, AtomDoc(<<A1, A2>>)}}

\* What one run of curl (subprocess.run) comes to: the subprocess timeout
\* expires, the process cannot be started, or curl exits with a return code,
\* a stderr that names 403 or not, and a stdout
CurlResult(kind, rc, has403, body) ==
    [kind |-> kind, rc |-> rc, has403 |-> has403, body |-> body]
NoResult == CurlResult("none", 0, FALSE, NoBody)
CurlResults ==
    {CurlResult("timeout", 0, FALSE, NoBody), CurlResult("oserror", 0, FALSE, NoBody)}
    \cup {CurlResult("exit", rc, h, NoBody) : rc \in {6, CurlHttpError, 28}, h \in BOOLEAN}
    \cup {CurlResult("exit", 0, FALSE, b) : b \in Bodies}

\* -------------------------------------------------------------- state
VARIABLES
    pc,               \* where the run is
    max_retries,      \* fetch: its parameter
    attempt,          \* fetch: the loop variable
    wait_time,        \* fetch: the argument of the time.sleep under way (0: none)
    fetch_last_error, \* fetch: its local last_error
    fetch_ret,        \* what fetch returned (NoBody: nothing)
    fetch_exc,        \* what fetch raised (NoExc: nothing)
    last_result,      \* what curl came to in this iteration (NoResult: not run yet)
    nsleeps,          \* sleeps fetch has started in this call
    nattempts,        \* runs of curl since main() started (-1: not counted)
    cand,             \* main: the index of the candidate of the loop (1..4)
    payload,          \* main: its local payload (NoBody: unset)
    data,             \* main: its local data
    last_error,       \* main: its local last_error
    last_cand,        \* the candidate last_error was caught on (0: none)
    fs,               \* the files: path -> content
    ret,              \* what main returned (None: nothing yet)
    calls,            \* the URLs fetch was called on, in order
    renamed,          \* whether tmp.replace(path) has completed
    before,           \* the content of OUT_PATH when the run started
    parser,           \* main: the parser it called last (None: none yet)
    diag,             \* the exception main printed to stderr (NoExc: none)
    runs              \* two overlapping runs in write_json: run -> its state

fetch_vars == <<max_retries, attempt, wait_time, fetch_last_error, fetch_ret,
                fetch_exc, last_result, nsleeps, nattempts>>
main_vars == <<cand, payload, data, last_error, last_cand, fs, ret, calls, renamed,
               before, parser, diag, runs>>
vars == <<pc, fetch_vars, main_vars>>

\* ------------------------------------------------------------- fetch
\* is_challenge without the test for "<html"
is_challenge_doctype_only(body) ==
    startswith(body.lead, "<!DOCTYPE") \/ body.marker

\* is_challenge without the search for "Just a moment"
is_challenge_prefix_only(body) ==
    startswith(body.lead, "<!DOCTYPE") \/ startswith(body.lead, "<html")

\* The condition of line 85: an HTML document or the challenge marker
is_challenge(body) ==
    startswith(body.lead, "<!DOCTYPE") \/ startswith(body.lead, "<html") \/ body.marker

\* is_xml_or_json on the data as received, the lstrip forgotten
is_xml_or_json_unstripped(body) ==
    \/ startswith(body.lead, "<?xml")
    \/ startswith(body.lead, "<rss")
    \/ startswith(body.lead, "<feed")
    \/ startswith(body.lead, "{")
    \/ startswith(body.lead, "[")

\* is_xml_or_json that accepts every body that is not empty after lstrip
is_xml_or_json_or_text(body) == lstrip(body.lead) # <<>>

\* The condition of lines 97-104, negated: an accepted leading shape
is_xml_or_json(body) ==
    LET stripped == lstrip(body.lead)
    IN  \/ startswith(stripped, "<?xml")
        \/ startswith(stripped, "<rss")
        \/ startswith(stripped, "<feed")
        \/ startswith(stripped, "{")
        \/ startswith(stripped, "[")

\* One pass through the try block on what curl came to: fetch returns the
\* data, sleeps and continues, or an exception leaves the block
Return(body) == [tag |-> "return", exc |-> NoExc, body |-> body]
Continue == [tag |-> "sleep", exc |-> NoExc, body |-> NoBody]
\* Raise with the error of the first attempt kept in place of the latest
RaiseFirst(exc) ==
    [tag |-> "raise", exc |-> [exc EXCEPT !.attempt = 0], body |-> NoBody]
Raise(exc) == [tag |-> "raise", exc |-> exc, body |-> NoBody]

try_block(result, i, retries) ==
    IF result.kind = "timeout" THEN Raise(Exc("TimeoutExpired", 0, i))
    ELSE IF result.kind = "oserror" THEN Raise(Exc("FileNotFoundError", 0, i))
    ELSE IF result.rc # 0
    THEN IF result.has403 \/ result.rc = CurlHttpError
         THEN IF i < retries - 1 THEN Continue
              ELSE Raise(Exc("HTTPError", HttpForbidden, i))
         ELSE Raise(Exc("RuntimeError", 0, i))
    ELSE IF is_challenge(result.body)
    THEN IF i < retries - 1 THEN Continue
         ELSE Raise(Exc("HTTPError", HttpForbidden, i))
    ELSE IF ~is_xml_or_json(result.body)
    THEN IF i < retries - 1 THEN Continue
         ELSE Raise(Exc("ValueError", 0, i))
    ELSE Return(result.body)

\* The except clauses: both keep the exception in last_error (a TimeoutError
\* in place of TimeoutExpired), sleep and continue before the last attempt
\* and re-raise on it
except_clauses(out, i, retries) ==
    IF out.tag # "raise" THEN out
    ELSE IF i < retries - 1 THEN Continue
    ELSE out

\* last_error after the pass
new_last_error(out, old) ==
    IF out.tag # "raise" THEN old
    ELSE IF out.exc.cls = "TimeoutExpired" THEN Exc("TimeoutError", 0, out.exc.attempt)
    ELSE out.exc

\* Rounding to the nearest float of Prec significand bits, ties to even, of
\* a value n >= 0 given in units of 2^-(Prec-1)
RECURSIVE ulp(_, _)
ulp(n, q) == IF n < q * Pow2(Prec) THEN q ELSE ulp(n, 2 * q)

fround(n) ==
    LET q == ulp(n, 1)
        lo == (n \div q) * q
        r == n - lo
    IN  IF 2 * r < q THEN lo
        ELSE IF 2 * r > q THEN lo + q
        ELSE IF (n \div q) % 2 = 0 THEN lo ELSE lo + q

\* One second, in the unit of the model's durations
Second == Pow2(Prec - 1)

\* The values of random.random(): k / 2^Prec for 0 <= k < 2^Prec
RandomDraws == 0 .. (Pow2(Prec) - 1)

\* backoff with a linear base: (2 * attempt) + (random.random() * 2)
backoff_linear(i, k) == fround(2 * i * Second + k)

\* wait_time = (2 ** attempt) + (random.random() * 2) for the draw k: the
\* product k/2^Prec * 2 is exact, the sum is rounded
backoff(i, k) == fround(Pow2(i) * Second + k)

\* One iteration of the loop of fetch: curl runs, and fetch returns, raises,
\* or starts the sleep before the next attempt
FetchAttempt ==
    /\ pc = "attempt"
    /\ attempt < max_retries
    /\ \E result \in CurlResults :
         LET out == except_clauses(try_block(result, attempt, max_retries),
                                   attempt, max_retries)
         IN  /\ last_result' = result
             /\ fetch_last_error' =
                    new_last_error(try_block(result, attempt, max_retries),
                                   fetch_last_error)
             /\ nattempts' = IF nattempts < 0 THEN nattempts ELSE nattempts + 1
             /\ \/ /\ out.tag = "return"
                   /\ pc' = "fetch_returned"
                   /\ fetch_ret' = out.body
                   /\ UNCHANGED <<fetch_exc, wait_time, nsleeps>>
                \/ /\ out.tag = "raise"
                   /\ pc' = "fetch_raised"
                   /\ fetch_exc' = out.exc
                   /\ UNCHANGED <<fetch_ret, wait_time, nsleeps>>
                \/ /\ out.tag = "sleep"
                   /\ pc' = "sleep"
                   /\ \E k \in RandomDraws : wait_time' = backoff(attempt, k)
                   /\ nsleeps' = nsleeps + 1
                   /\ UNCHANGED <<fetch_ret, fetch_exc>>
    /\ UNCHANGED <<max_retries, attempt, main_vars>>

\* time.sleep(wait_time) returns; continue: the next iteration
FetchSleep ==
    /\ pc = "sleep"
    /\ pc' = "attempt"
    /\ attempt' = attempt + 1
    /\ wait_time' = 0
    /\ last_result' = NoResult
    /\ UNCHANGED <<max_retries, fetch_last_error, fetch_ret, fetch_exc,
                   nsleeps, nattempts, main_vars>>

\* The loop ends without a return or a raise (range(max_retries) is used
\* up): raise last_error if last_error else RuntimeError
FetchExhausted ==
    /\ pc = "attempt"
    /\ attempt >= max_retries
    /\ pc' = "fetch_raised"
    /\ fetch_exc' = IF fetch_last_error # NoExc THEN fetch_last_error
                    ELSE Exc("RuntimeError", 0, -1)
    /\ UNCHANGED <<max_retries, attempt, wait_time, fetch_last_error, fetch_ret,
                   last_result, nsleeps, nattempts, main_vars>>

\* -------------------------------------------------------------- files
\* OUT_PATH, relative to the repository
OUT_PATH == "assets/substack.json"
\* path.parent
parent(path) == IF path \in {"assets/substack.json", "assets/substack.tmp"}
                THEN "assets" ELSE "."
\* path.with_suffix(suffix): the last suffix of the name replaced
with_suffix(path, suffix) ==
    IF path = "assets/substack.json" THEN "assets/substack" \o suffix
    ELSE path \o suffix
Paths == {"assets", OUT_PATH, with_suffix(OUT_PATH, ".tmp")}

\* The content of a path: nothing there, a directory, or a file holding the
\* whole text of a snapshot, a proper prefix of it, or no byte yet
Absent == [state |-> "absent", doc |-> NoData]
Directory == [state |-> "dir", doc |-> NoData]
Empty == [state |-> "empty", doc |-> NoData]
Partial(snapshot) == [state |-> "partial", doc |-> snapshot]
\* json.dumps(data, indent=2, ensure_ascii=False) + "\n", written whole
Complete(snapshot) == [state |-> "complete", doc |-> snapshot]

\* The values of now_iso() in the runs of the model
Times == {"2026-11-01T06:00:00+00:00", "2026-11-01T06:00:01+00:00"}

\* The snapshot an earlier run left at OUT_PATH
PrevSnapshot ==
    parse_archive([lead |-> <<"[">>, marker |-> FALSE, doc |-> JsonArray(<<J1>>)],
                  limit, "2026-10-31T06:00:00+00:00").value

\* The files a run can start from: no assets directory yet, or the directory
\* with or without an earlier snapshot, and with or without the temporary
\* file an interrupted run left
InitialFiles ==
    {[p \in Paths |-> Absent]}
    \cup {[p \in Paths |-> IF p = "assets" THEN Directory
                           ELSE IF p = OUT_PATH THEN out ELSE tmp] :
            out \in {Absent, Complete(PrevSnapshot)},
            tmp \in {Absent, Partial(PrevSnapshot)}}

\* No second run: the state of runs in a run of main() on its own
NoRuns == <<>>

\* -------------------------------------------------------------- main
\* JINA_PROXY_TEMPLATE.format(url=url.replace("https://", ""))
proxied(url) ==
    IF url = ARCHIVE_URL
    THEN "https://r.jina.ai/http://drinkyouroj.substack.com/api/v1/archive?limit=6"
    ELSE "https://r.jina.ai/http://drinkyouroj.substack.com/feed"

\* candidates with the feed tried before the archive
candidates_feed_first ==
    <<FEED_URL, proxied(FEED_URL), ARCHIVE_URL, proxied(ARCHIVE_URL)>>

\* candidates with a fifth URL, a second proxy of the feed
candidates_with_mirror ==
    <<ARCHIVE_URL, proxied(ARCHIVE_URL), FEED_URL, proxied(FEED_URL),
      "https://r.jina.ai/https://drinkyouroj.substack.com/feed">>

candidates == <<ARCHIVE_URL, proxied(ARCHIVE_URL), FEED_URL, proxied(FEED_URL)>>

\* The outer handler of main: except Exception prints and returns 1; any
\* other exception leaves main
main_except(exc) ==
    IF IsException(exc.cls) THEN [pc |-> "done", ret |-> 1, diag |-> exc]
    ELSE [pc |-> "uncaught", ret |-> -1, diag |-> NoExc]

\* The frame of a call of fetch is gone (it returned or raised) and the next
\* call starts from fresh locals
FetchFrameReset ==
    /\ attempt' = 0
    /\ nsleeps' = 0
    /\ wait_time' = 0
    /\ fetch_last_error' = NoExc
    /\ fetch_ret' = NoBody
    /\ fetch_exc' = NoExc
    /\ last_result' = NoResult
    /\ UNCHANGED <<max_retries, nattempts>>

\* NextCandidate that calls fetch on the same candidate again
NextCandidateRetry ==
    /\ pc' = "attempt"
    /\ calls' = Append(calls, candidates[cand])
    /\ UNCHANGED cand

\* continue (or the end of the loop body): fetch is called on the next
\* candidate, or the loop is over
NextCandidate ==
    IF cand < Len(candidates)
    THEN /\ pc' = "attempt"
         /\ cand' = cand + 1
         /\ calls' = Append(calls, candidates[cand + 1])
    ELSE /\ pc' = "after_loop"
         /\ UNCHANGED <<cand, calls>>

\* MainCatch that keeps the first exception: last_error = last_error or e
MainCatchKeepFirst ==
    /\ pc = "fetch_raised"
    /\ last_error' = IF last_error # NoExc THEN last_error ELSE fetch_exc
    /\ last_cand' = IF last_error # NoExc THEN last_cand ELSE cand
    /\ NextCandidate
    /\ FetchFrameReset
    /\ UNCHANGED <<payload, data, fs, ret, renamed, before, parser, diag, runs>>

\* fetch raised: the inner except keeps the exception and continues
MainCatch ==
    /\ pc = "fetch_raised"
    /\ IF IsException(fetch_exc.cls)
       THEN /\ last_error' = fetch_exc
            /\ last_cand' = cand
            /\ NextCandidate
            /\ FetchFrameReset
            /\ UNCHANGED <<payload, data, fs, ret, renamed, before, parser, diag,
                           runs>>
       ELSE /\ pc' = main_except(fetch_exc).pc
            /\ ret' = main_except(fetch_exc).ret
            /\ diag' = main_except(fetch_exc).diag
            /\ UNCHANGED <<fetch_vars, cand, payload, data, last_error, last_cand,
                           fs, calls, renamed, before, parser, runs>>

\* The parser main picks for a payload: parse_archive for a payload that
\* starts, after whitespace, with [ or {, parse_rss for one that starts with
\* <?xml, <rss or <feed, else none
sniff(body) ==
    LET stripped == lstrip(body.lead)
    IN  IF startswith(stripped, "[") \/ startswith(stripped, "{") THEN "archive"
        ELSE IF startswith(stripped, "<?xml") \/ startswith(stripped, "<rss")
                \/ startswith(stripped, "<feed") THEN "rss"
        ELSE "none"

\* The parser main calls on the body, if any (old: the one it called last)
called(body, old) ==
    IF sniff(body) = "archive" THEN "parse_archive"
    ELSE IF sniff(body) = "rss" THEN "parse_rss"
    ELSE old

\* The parser's result on the body
parse(body, now) ==
    IF sniff(body) = "archive" THEN parse_archive(body, limit, now)
    ELSE IF sniff(body) = "rss" THEN parse_rss(body, limit, now)
    ELSE Returned(NoData)

\* fetch returned: the payload is sniffed and parsed; a result ends the loop
\* (break), an exception is kept and the loop continues
MainParse ==
    /\ pc = "fetch_returned"
    /\ payload' = fetch_ret
    /\ \E now \in Times :
         LET r == parse(fetch_ret, now)
         IN  IF r.exc # NoExc
             THEN /\ last_error' = r.exc
                  /\ last_cand' = cand
                  /\ NextCandidate
                  /\ UNCHANGED data
             ELSE IF sniff(fetch_ret) = "none"
             THEN /\ NextCandidate
                  /\ UNCHANGED <<data, last_error, last_cand>>
             ELSE /\ data' = r.value
                  /\ pc' = "after_loop"
                  /\ UNCHANGED <<cand, last_error, last_cand, calls>>
    /\ parser' = called(fetch_ret, parser)
    /\ FetchFrameReset
    /\ UNCHANGED <<fs, ret, renamed, before, diag, runs>>

\* MainAfterLoop that takes data without posts for no data:
\* if not data or not data["posts"]
MainAfterLoopNeedsPosts ==
    /\ pc = "after_loop"
    /\ IF data = NoData \/ data.posts = <<>>
       THEN LET e == IF last_error # NoExc THEN last_error
                     ELSE Exc("RuntimeError", 0, -1)
            IN  /\ pc' = main_except(e).pc
                /\ ret' = main_except(e).ret
                /\ diag' = main_except(e).diag
       ELSE /\ pc' = "mkdir"
            /\ UNCHANGED <<ret, diag>>
    /\ UNCHANGED <<fetch_vars, cand, payload, data, last_error, last_cand, fs, calls,
                   renamed, before, parser, runs>>

\* After the loop: without data the last error (or a RuntimeError) is raised
\* into the outer handler; with data write_json is called
MainAfterLoop ==
    /\ pc = "after_loop"
    /\ IF data = NoData
       THEN LET e == IF last_error # NoExc THEN last_error
                     ELSE Exc("RuntimeError", 0, -1)
            IN  /\ pc' = main_except(e).pc
                /\ ret' = main_except(e).ret
                /\ diag' = main_except(e).diag
       ELSE /\ pc' = "mkdir"
            /\ UNCHANGED <<ret, diag>>
    /\ UNCHANGED <<fetch_vars, cand, payload, data, last_error, last_cand, fs, calls,
                   renamed, before, parser, runs>>

\* ------------------------------------------------------- write_json
\* A step of write_json fails with an OSError (or the UnicodeEncodeError of
\* write_text): the outer handler of main returns 1
WriteFails(cls) ==
    /\ pc' = main_except(Exc(cls, 0, -1)).pc
    /\ ret' = main_except(Exc(cls, 0, -1)).ret
    /\ diag' = main_except(Exc(cls, 0, -1)).diag

\* tmp_path that names the destination itself
tmp_path_in_place(path) == path

\* The temporary file write_json writes to
tmp_path(path) == with_suffix(path, ".tmp")

\* path.parent.mkdir(parents=True, exist_ok=True)
WriteMkdir ==
    /\ pc = "mkdir"
    /\ \/ /\ pc' = "open"
          /\ fs' = [fs EXCEPT ![parent(OUT_PATH)] = Directory]
          /\ UNCHANGED <<ret, diag>>
       \/ /\ fs[parent(OUT_PATH)] = Absent
          /\ WriteFails("PermissionError")
          /\ UNCHANGED fs
    /\ UNCHANGED <<fetch_vars, cand, payload, data, last_error, last_cand, calls,
                   renamed, before, parser, runs>>

\* tmp.write_text(...), the open: the file is created or truncated
WriteOpen ==
    /\ pc = "open"
    /\ \/ /\ pc' = "write"
          /\ fs' = [fs EXCEPT ![tmp_path(OUT_PATH)] = Empty]
          /\ UNCHANGED <<ret, diag>>
       \/ /\ WriteFails("PermissionError")
          /\ UNCHANGED fs
    /\ UNCHANGED <<fetch_vars, cand, payload, data, last_error, last_cand, calls,
                   renamed, before, parser, runs>>

\* tmp.write_text(...), the write and the close: the whole text reaches the
\* file, or the write fails and leaves a prefix of it
WriteText ==
    /\ pc = "write"
    /\ \/ /\ pc' = "replace"
          /\ fs' = [fs EXCEPT ![tmp_path(OUT_PATH)] = Complete(data)]
          /\ UNCHANGED <<ret, diag>>
       \/ /\ WriteFails("OSError")
          /\ fs' = [fs EXCEPT ![tmp_path(OUT_PATH)] = Partial(data)]
    /\ UNCHANGED <<fetch_vars, cand, payload, data, last_error, last_cand, calls,
                   renamed, before, parser, runs>>

\* WriteReplace as a copy of the bytes over the destination, which a failure
\* interrupts
WriteReplaceCopy ==
    /\ pc = "replace"
    /\ \/ /\ pc' = "done"
          /\ ret' = 0
          /\ renamed' = TRUE
          /\ UNCHANGED diag
          /\ fs' = [fs EXCEPT ![OUT_PATH] = fs[tmp_path(OUT_PATH)]]
       \/ /\ WriteFails("OSError")
          /\ fs' = [fs EXCEPT ![OUT_PATH] = Partial(data)]
          /\ UNCHANGED renamed
    /\ UNCHANGED <<fetch_vars, cand, payload, data, last_error, last_cand, calls,
                   before, parser, runs>>

\* tmp.replace(path): one atomic rename; then write_json returns and main
\* returns 0
WriteReplace ==
    /\ pc = "replace"
    /\ \/ /\ pc' = "done"
          /\ ret' = 0
          /\ renamed' = TRUE
          /\ UNCHANGED diag
          /\ fs' = [fs EXCEPT ![OUT_PATH] = fs[tmp_path(OUT_PATH)],
                              ![tmp_path(OUT_PATH)] =
                                  IF tmp_path(OUT_PATH) = OUT_PATH
                                  THEN fs[OUT_PATH] ELSE Absent]
       \/ /\ WriteFails("OSError")
          /\ UNCHANGED <<fs, renamed>>
    /\ UNCHANGED <<fetch_vars, cand, payload, data, last_error, last_cand, calls,
                   before, parser, runs>>

\* The process is killed (a signal, the machine stops) between two steps
Kill ==
    /\ pc \notin {"done", "uncaught", "killed"}
    /\ pc' = "killed"
    /\ UNCHANGED <<fetch_vars, main_vars>>

\* ----------------------------------------------------- specifications
InitFetchVars ==
    /\ attempt = 0
    /\ wait_time = 0
    /\ fetch_last_error = NoExc
    /\ fetch_ret = NoBody
    /\ fetch_exc = NoExc
    /\ last_result = NoResult
    /\ nsleeps = 0

InitMainVars ==
    /\ cand = 1
    /\ payload = NoBody
    /\ data = NoData
    /\ last_error = NoExc
    /\ last_cand = 0
    /\ ret = -1
    /\ calls = <<candidates[1]>>
    /\ renamed = FALSE
    /\ parser = None
    /\ diag = NoExc

\* main() has built its candidates and calls fetch on the first
Init ==
    /\ pc = "attempt"
    /\ max_retries = DefaultMaxRetries
    /\ InitFetchVars
    /\ InitMainVars
    /\ fs \in InitialFiles
    /\ before = fs[OUT_PATH]
    /\ runs = NoRuns
    /\ nattempts = -1

Next ==
    \/ FetchAttempt
    \/ FetchSleep
    \/ MainCatch
    \/ MainParse
    \/ MainAfterLoop
    \/ WriteMkdir
    \/ WriteOpen
    \/ WriteText
    \/ WriteReplace
    \/ Kill

Spec == Init /\ [][Next]_vars

\* A run of main() in a fresh checkout (no assets directory yet) that is not
\* killed and whose runs of curl are counted.
\* The process keeps taking steps: every run of curl ends (with a result or
\* by the timeout of subprocess.run), every sleep ends, and so does every
\* step of the parsers and of write_json
InitLive ==
    /\ pc = "attempt"
    /\ max_retries = DefaultMaxRetries
    /\ InitFetchVars
    /\ InitMainVars
    /\ fs = [p \in Paths |-> Absent]
    /\ before = fs[OUT_PATH]
    /\ runs = NoRuns
    /\ nattempts = 0

NextLive ==
    \/ FetchAttempt
    \/ FetchSleep
    \/ MainCatch
    \/ MainParse
    \/ MainAfterLoop
    \/ WriteMkdir
    \/ WriteOpen
    \/ WriteText
    \/ WriteReplace

SpecLive == InitLive /\ [][NextLive]_vars /\ WF_vars(NextLive)

\* fetch(url, max_retries) called on its own, for every max_retries up to
\* MaxRetriesArg
InitFetch ==
    /\ pc = "attempt"
    /\ max_retries \in 0 .. MaxRetriesArg
    /\ InitFetchVars
    /\ nattempts = -1
    /\ InitMainVars
    /\ fs = [p \in Paths |-> Absent]
    /\ before = Absent
    /\ runs = NoRuns

NextFetch ==
    \/ FetchAttempt
    \/ FetchSleep
    \/ FetchExhausted

SpecFetch == InitFetch /\ [][NextFetch]_vars

\* The payloads of up to MaxEntries entries fetch can return: a JSON array,
\* an RSS channel or an Atom feed
SeqsUpTo(pool, n) == UNION {[1..k -> pool] : k \in 0..n}

LongDocs ==
    {JsonArray(items) : items \in SeqsUpTo({J1, J2, JBad}, MaxEntries)}
    \cup {RssDoc(" The Civic Node ", None, items) : items \in SeqsUpTo({R1, R2}, MaxEntries)}
    \cup {AtomDoc(entries) : entries \in SeqsUpTo({A1, A2}, MaxEntries)}
    \cup {RssDoc("The Civic Node", None, <<it>>) : it \in CoverItems}
    \cup {JsonArray(<<it>>) : it \in ChainItems}

LongPayloads ==
    {[lead |-> IF d.kind = "json_array" THEN <<" ", "[">>
               ELSE IF d.channel THEN <<"<?xml">> ELSE <<"<feed">>,
      marker |-> FALSE, doc |-> d] : d \in LongDocs}

\* fetch has returned a payload to main on the first attempt for the first
\* candidate
InitParse ==
    /\ pc = "fetch_returned"
    /\ max_retries = DefaultMaxRetries
    /\ fetch_ret \in LongPayloads
    /\ last_result = CurlResult("exit", 0, FALSE, fetch_ret)
    /\ attempt = 0
    /\ wait_time = 0
    /\ fetch_last_error = NoExc
    /\ fetch_exc = NoExc
    /\ nsleeps = 0
    /\ nattempts = -1
    /\ InitMainVars
    /\ fs = [p \in Paths |-> Absent]
    /\ before = Absent
    /\ runs = NoRuns

NextParse == MainParse

SpecParse == InitParse /\ [][NextParse]_vars

\* ------------------------------------------- two overlapping runs
\* Two processes run the script at once and both have reached write_json
\* with a snapshot: runs[r] is where run r is in write_json, its data, what
\* its main returned (-1: nothing yet) and where the file it has open for
\* writing is now ("closed": it has none open; "unlinked": under no name)
Run(at, snapshot, code, fd) == [pc |-> at, data |-> snapshot, ret |-> code, fd |-> fd]

\* The snapshots of the two runs: of an archive of two posts, of a feed of one
SnapshotA ==
    parse_archive([lead |-> <<"[">>, marker |-> FALSE, doc |-> JsonArray(<<J1, J2>>)],
                  limit, "2026-11-01T06:00:00+00:00").value
SnapshotB ==
    parse_rss([lead |-> <<"<?xml">>, marker |-> FALSE,
               doc |-> RssDoc("The Civic Node", None, <<R1>>)],
              limit, "2026-11-01T06:00:01+00:00").value

\* A file that holds bytes of two texts: the head of one, the tail of another
Mixed(snapshot) == [state |-> "mixed", doc |-> snapshot]

\* What a file holds after the text of a snapshot was written through a
\* handle opened with "w" (at offset 0): the text alone, unless the file
\* held a longer text (more posts), whose tail stays
written(content, snapshot) ==
    IF content.state = "complete" /\ Len(content.doc.posts) > Len(snapshot.posts)
    THEN Mixed(snapshot)
    ELSE Complete(snapshot)

\* The open file of another process after tmp was renamed to path: the file
\* it has open follows the rename, and a file that was at path has no name
renamed_under(fd, tmp, path) ==
    IF fd = tmp THEN path ELSE IF fd = path THEN "unlinked" ELSE fd

one_run_vars == <<pc, fetch_vars, cand, payload, data, last_error, last_cand, ret,
                  calls, renamed, before, parser, diag>>

\* path.parent.mkdir(parents=True, exist_ok=True) in run r
TwoMkdir(r) ==
    /\ runs[r].pc = "mkdir"
    /\ fs' = [fs EXCEPT ![parent(OUT_PATH)] = Directory]
    /\ runs' = [runs EXCEPT ![r].pc = "open"]
    /\ UNCHANGED one_run_vars

\* tmp.write_text(...) in run r, the open: the file at the temporary path is
\* created, or truncated if it is there (also when the other run has it open)
TwoOpen(r) ==
    /\ runs[r].pc = "open"
    /\ fs' = [fs EXCEPT ![tmp_path(OUT_PATH)] = Empty]
    /\ runs' = [runs EXCEPT ![r].pc = "write", ![r].fd = tmp_path(OUT_PATH)]
    /\ UNCHANGED one_run_vars

\* tmp.write_text(...) in run r, the write and the close: the text goes to
\* the file run r opened, wherever it is now
TwoText(r) ==
    /\ runs[r].pc = "write"
    /\ fs' = IF runs[r].fd \in Paths
             THEN [fs EXCEPT ![runs[r].fd] = written(fs[runs[r].fd], runs[r].data)]
             ELSE fs
    /\ runs' = [runs EXCEPT ![r].pc = "replace", ![r].fd = "closed"]
    /\ UNCHANGED one_run_vars

\* tmp.replace(path) in run r: the rename, after which main returns 0; with
\* no file at the temporary path it raises FileNotFoundError and main
\* returns 1
TwoReplace(r) ==
    /\ runs[r].pc = "replace"
    /\ IF fs[tmp_path(OUT_PATH)] = Absent
       THEN /\ runs' = [runs EXCEPT ![r].pc = "done", ![r].ret = 1]
            /\ UNCHANGED fs
       ELSE /\ fs' = [fs EXCEPT ![OUT_PATH] = fs[tmp_path(OUT_PATH)],
                                ![tmp_path(OUT_PATH)] = Absent]
            /\ runs' = [q \in DOMAIN runs |->
                          IF q = r THEN Run("done", runs[r].data, 0, "closed")
                          ELSE [runs[q] EXCEPT
                                  !.fd = renamed_under(runs[q].fd, tmp_path(OUT_PATH),
                                                       OUT_PATH)]]
    /\ UNCHANGED one_run_vars

\* Both runs are about to call write_json
InitTwo ==
    /\ pc = "two runs"
    /\ max_retries = DefaultMaxRetries
    /\ InitFetchVars
    /\ nattempts = -1
    /\ InitMainVars
    /\ fs \in InitialFiles
    /\ before = fs[OUT_PATH]
    /\ runs \in [1..2 -> {Run("mkdir", s, -1, "closed") : s \in {SnapshotA, SnapshotB}}]

NextTwo ==
    \E r \in 1..2 : TwoMkdir(r) \/ TwoOpen(r) \/ TwoText(r) \/ TwoReplace(r)

SpecTwo == InitTwo /\ [][NextTwo]_vars

\* ------------------------------------------------------------- claims
FetchPcs == {"attempt", "sleep", "fetch_returned", "fetch_raised"}
Min(a, b) == IF a < b THEN a ELSE b

\* C1: in every state of a run in which the rename of the new snapshot has
\* not completed (every candidate failed, the write step failed, the run is
\* still under way or was killed), OUT_PATH holds exactly the content it
\* had when the run started.
C1_DestinationUntouchedWithoutRename ==
    ~renamed => fs[OUT_PATH] = before

\* C1 witness: main returned 1 because the write of the temporary file
\* failed half way, and the earlier snapshot is still at OUT_PATH.
C1_WriteFailedWitness ==
    /\ pc = "done" /\ ret = 1 /\ ~renamed
    /\ data # NoData
    /\ fs[tmp_path(OUT_PATH)] = Partial(data)
    /\ fs[OUT_PATH] = Complete(PrevSnapshot)

\* C2: in every state, a killed run included, OUT_PATH holds the complete
\* previous content or the complete new snapshot, never an empty or partial
\* file; the new content goes to a path other than OUT_PATH, and while
\* write_json is under way OUT_PATH is as before.
C2_DestinationOldOrNew ==
    /\ tmp_path(OUT_PATH) # OUT_PATH
    /\ fs[OUT_PATH].state \in {"absent", "complete"}
    /\ fs[OUT_PATH] = before \/ (data # NoData /\ fs[OUT_PATH] = Complete(data))
    /\ pc \in {"mkdir", "open", "write", "replace"} => fs[OUT_PATH] = before
    /\ pc = "replace" => fs[tmp_path(OUT_PATH)] = Complete(data)

\* C2 witness: the run was killed between the open and the write of the
\* temporary file; the earlier snapshot is whole at OUT_PATH.
C2_KilledMidWriteWitness ==
    /\ pc = "killed"
    /\ data # NoData
    /\ fs[tmp_path(OUT_PATH)] = Empty
    /\ fs[OUT_PATH] = Complete(PrevSnapshot)

\* The order C3 states: archive, proxied archive, feed, proxied feed
ClaimedOrder ==
    <<"https://drinkyouroj.substack.com/api/v1/archive?limit=6",
      "https://r.jina.ai/http://drinkyouroj.substack.com/api/v1/archive?limit=6",
      "https://drinkyouroj.substack.com/feed",
      "https://r.jina.ai/http://drinkyouroj.substack.com/feed">>

\* C3: fetch is called on the candidates in the order archive, proxied
\* archive, feed, proxied feed; while candidate k is being fetched every
\* earlier candidate has failed (the latest failure is that of k-1) and no
\* candidate has won; once a candidate has won no fetch is under way, the
\* winner is the last candidate called, and its normalized payload is the
\* data that is written.
C3_CandidatesInOrderFirstWins ==
    /\ Len(calls) = cand
    /\ calls = SubSeq(ClaimedOrder, 1, cand)
    /\ pc \in FetchPcs => data = NoData /\ last_cand = cand - 1
    /\ data # NoData =>
          /\ pc \notin FetchPcs
          /\ sniff(payload) # "none"
          /\ \E now \in Times : data = parse(payload, now).value
    /\ renamed => fs[OUT_PATH] = Complete(data)

\* C3 witness: the third candidate won after the first two failed, and its
\* snapshot was written.
C3_ThirdCandidateWinsWitness ==
    /\ pc = "done" /\ ret = 0
    /\ cand = 3 /\ last_cand = 2
    /\ calls = <<ARCHIVE_URL, proxied(ARCHIVE_URL), FEED_URL>>
    /\ fs[OUT_PATH] = Complete(data)

\* The failures of an attempt C4 lists: a timeout, curl not run or exiting
\* non-zero, a body that starts with an HTML document or holds the
\* challenge marker, a body without an accepted leading shape
AttemptFails(r) ==
    \/ r.kind \in {"timeout", "oserror"}
    \/ r.kind = "exit" /\ r.rc # 0
    \/ r.kind = "exit" /\ r.rc = 0 /\
         \/ r.body.lead # <<>> /\ r.body.lead[1] \in {"<!DOCTYPE", "<html"}
         \/ r.body.marker
         \/ LET rest == SelectSeq(r.body.lead, LAMBDA c : c \notin Whitespace)
            IN  rest = <<>> \/ rest[1] \notin {"<?xml", "<rss", "<feed", "{", "["}

\* C4: for max_retries >= 1, fetch makes at most max_retries attempts; it
\* sleeps towards another attempt exactly after a failing attempt that is
\* not the last, raises only on a failing last attempt, and returns only on
\* an attempt without failure, whose body it returns unchanged.
C4_RetryUntilFirstGoodBody ==
    max_retries >= 1 =>
        /\ attempt < max_retries
        /\ pc = "sleep" => AttemptFails(last_result) /\ attempt < max_retries - 1
        /\ pc = "fetch_raised" => AttemptFails(last_result) /\ attempt = max_retries - 1
        /\ pc = "fetch_returned" =>
              /\ ~AttemptFails(last_result)
              /\ fetch_ret = last_result.body
        /\ last_result # NoResult /\ ~AttemptFails(last_result) => pc = "fetch_returned"

\* C4 witness: fetch returned the body of its third attempt, whose leading
\* whitespace it kept, after two failing attempts.
C4_ThirdAttemptReturnsWitness ==
    /\ pc = "fetch_returned"
    /\ max_retries = 3 /\ attempt = 2 /\ nsleeps = 2
    /\ fetch_ret.lead = <<" ", "[">>

\* C5 as stated: one sleep after each failed attempt i < max_retries - 1, of
\* a duration w with 2^i <= w < 2^i + 2, and none after the last attempt.
C5_BackoffStrictlyBelow ==
    max_retries >= 1 =>
        /\ pc = "attempt" => nsleeps = attempt /\ wait_time = 0
        /\ pc = "sleep" =>
              /\ nsleeps = attempt + 1
              /\ attempt < max_retries - 1
              /\ Pow2(attempt) * Second <= wait_time
              /\ wait_time < (Pow2(attempt) + 2) * Second
        /\ pc = "fetch_raised" => nsleeps = max_retries - 1 /\ wait_time = 0

\* C5, amended: one sleep after each failed attempt i < max_retries - 1, of
\* a duration w with 2^i <= w <= 2^i + 2 (the float sum rounds up to
\* 2^i + 2 for the largest draw), and none after the last attempt, on which
\* the error is raised.
C5_BackoffWithinClosedRange ==
    max_retries >= 1 =>
        /\ pc = "attempt" => nsleeps = attempt /\ wait_time = 0
        /\ pc = "sleep" =>
              /\ nsleeps = attempt + 1
              /\ attempt < max_retries - 1
              /\ AttemptFails(last_result)
              /\ Pow2(attempt) * Second <= wait_time
              /\ wait_time <= (Pow2(attempt) + 2) * Second
        /\ pc = "fetch_raised" =>
              nsleeps = max_retries - 1 /\ attempt = max_retries - 1 /\ wait_time = 0

\* C5 witness: the sleep after the failed second attempt (i = 1) of three
\* lasts exactly 2^1 + 2 seconds.
C5_SleepAtUpperEndWitness ==
    /\ pc = "sleep"
    /\ max_retries = 3 /\ attempt = 1 /\ nsleeps = 2
    /\ wait_time = (Pow2(1) + 2) * Second

\* The kind of cause C6 tells apart, read from what the attempt observed: a
\* rejected request (curl's HTTP error exit, a 403 in its stderr, a
\* challenge page), a network failure (a timeout, any other failure of
\* curl), or a response that is not XML/JSON
CauseKind(r) ==
    IF r.kind \in {"timeout", "oserror"} THEN "network"
    ELSE IF r.rc # 0
    THEN IF r.rc = 22 \/ r.has403 THEN "blocked" ELSE "network"
    ELSE IF \/ r.body.lead # <<>> /\ r.body.lead[1] \in {"<!DOCTYPE", "<html"}
            \/ r.body.marker
    THEN "blocked"
    ELSE "malformed"

\* The kind a caller reads from the class of the error fetch raised
ErrorKind(e) ==
    CASE e.cls = "HTTPError" -> "blocked"
      [] e.cls = "ValueError" -> "malformed"
      [] e.cls \in {"TimeoutExpired", "RuntimeError", "FileNotFoundError"} -> "network"
      [] OTHER -> "unknown"

\* C6: when fetch (max_retries >= 1) raises, it does so on its last attempt,
\* the error is the one built from what that attempt observed, and its class
\* tells the kind of that cause: blocked/challenged (HTTPError, status 403),
\* network failure, or malformed payload (ValueError).
C6_ErrorNamesLastCause ==
    max_retries >= 1 /\ pc = "fetch_raised" =>
        /\ attempt = max_retries - 1
        /\ fetch_exc.attempt = attempt
        /\ ErrorKind(fetch_exc) = CauseKind(last_result)
        /\ ErrorKind(fetch_exc) = "blocked" <=> fetch_exc.code = 403

\* C6 witness: after two retried attempts, the third attempt of three
\* received a body that is not XML/JSON and fetch raised a ValueError built
\* on that attempt.
C6_MalformedAfterRetriesWitness ==
    /\ pc = "fetch_raised"
    /\ max_retries = 3 /\ nsleeps = 2
    /\ fetch_exc.cls = "ValueError" /\ fetch_exc.attempt = 2
    /\ last_result.body.lead = <<"text">>

\* C7: main returns 0 exactly when the rename has completed and 1 in every
\* other run that returns; no exception leaves main, and nothing is returned
\* before the run is done.
C7_ExitCodeTellsRename ==
    /\ pc # "uncaught"
    /\ pc = "done" => ret \in {0, 1} /\ (ret = 0 <=> renamed)
    /\ pc # "done" => ret = -1 /\ ~renamed

\* C7 witness: main returned 1 after the last candidate timed out on its
\* last attempt, with no data and no rename.
C7_AllCandidatesFailedWitness ==
    /\ pc = "done" /\ ret = 1
    /\ cand = 4 /\ last_cand = 4
    /\ last_error.cls = "TimeoutExpired"
    /\ data = NoData /\ ~renamed

\* The post the parsers build from one entry of a payload
PostOf(body, entry) ==
    IF body.doc.kind = "json_array" THEN archive_post(entry)
    ELSE IF body.doc.channel THEN rss_post(entry)
    ELSE atom_post(entry)

\* C8: the posts of a snapshot parsed from a payload of K entries are
\* min(K, 6) records, and record j is the post of entry j of the payload.
C8_PostsAreFirstEntriesInOrder ==
    data # NoData =>
        /\ Len(data.posts) = Min(Len(payload.doc.items), 6)
        /\ \A j \in 1..Len(data.posts) :
              data.posts[j] = PostOf(payload, payload.doc.items[j])

\* C8 witness: a payload of more than 6 entries, whose first and second
\* entries differ, was parsed into 6 posts.
C8_TruncatedWitness ==
    /\ data # NoData
    /\ Len(payload.doc.items) > 6
    /\ payload.doc.items[1] # payload.doc.items[2]
    /\ Len(data.posts) = 6
    /\ data.posts[1] # data.posts[2]

\* C9 as stated: a body that starts with "<html" is never returned; an
\* attempt that receives it is retried, and when the last attempt receives
\* it fetch raises the non-XML/JSON error (ValueError).
C9_HtmlEscalatesAsMalformed ==
    /\ pc = "fetch_returned" => ~startswith(fetch_ret.lead, "<html")
    /\ max_retries >= 1 /\ last_result.kind = "exit" /\ last_result.rc = 0
       /\ startswith(last_result.body.lead, "<html") =>
          /\ pc \in {"sleep", "fetch_raised"}
          /\ pc = "sleep" <=> attempt < max_retries - 1
          /\ pc = "fetch_raised" => fetch_exc.cls = "ValueError"

\* C9, amended: a body that starts with "<html" is never returned; an
\* attempt that receives it is retried, and when the last attempt receives
\* it fetch raises the challenge-page error, an HTTPError of status 403.
C9_HtmlEscalatesAsForbidden ==
    /\ pc = "fetch_returned" => ~startswith(fetch_ret.lead, "<html")
    /\ max_retries >= 1 /\ last_result.kind = "exit" /\ last_result.rc = 0
       /\ startswith(last_result.body.lead, "<html") =>
          /\ pc \in {"sleep", "fetch_raised"}
          /\ pc = "sleep" <=> attempt < max_retries - 1
          /\ pc = "fetch_raised" =>
                fetch_exc.cls = "HTTPError" /\ fetch_exc.code = 403

\* C9 witness: all three attempts were retried or failed, the last on a
\* body that starts with "<html" and holds no challenge marker, and fetch
\* raised.
C9_HtmlOnLastAttemptWitness ==
    /\ pc = "fetch_raised"
    /\ max_retries = 3 /\ attempt = 2
    /\ last_result.body.lead = <<"<html">>
    /\ ~last_result.body.marker

\* C10: fetch is called at most once per candidate, and the step that
\* follows a parse failure on candidate k calls fetch on candidate k+1 from
\* its first attempt, or, for the last candidate, leaves the loop, after
\* which main returns 1 without data.
C10_ParseFailureMovesOn ==
    /\ [](\A i, j \in 1..Len(calls) : calls[i] = calls[j] => i = j)
    /\ [][/\ (pc = "fetch_returned" /\ pc' # "killed" /\ data' = NoData) =>
               /\ last_error'.cls \in {"JSONDecodeError", "TypeError",
                                       "AttributeError", "ParseError"}
               /\ last_cand' = cand
               /\ IF cand < 4
                  THEN /\ pc' = "attempt" /\ attempt' = 0 /\ cand' = cand + 1
                       /\ calls' = Append(calls, ClaimedOrder[cand + 1])
                  ELSE pc' = "after_loop" /\ calls' = calls
          /\ (pc = "after_loop" /\ data = NoData /\ pc' # "killed") =>
               pc' = "done" /\ ret' = 1 /\ calls' = calls
          /\ Len(calls') >= Len(calls)]_vars

\* C10 witness: the payload of the first candidate failed in parse_archive
\* and fetch is about to run its first attempt on the second candidate.
C10_SecondCandidateAfterParseErrorWitness ==
    /\ pc = "attempt" /\ attempt = 0
    /\ cand = 2 /\ last_cand = 1
    /\ last_error.cls = "JSONDecodeError"
    /\ payload.doc.kind = "malformed"
    /\ calls = <<ARCHIVE_URL, proxied(ARCHIVE_URL)>>

\* The first chunk of a body that is not whitespace ("": there is none)
FirstToken(body) ==
    LET rest == SelectSeq(body.lead, LAMBDA c : c \notin Whitespace)
    IN  IF rest = <<>> THEN "" ELSE rest[1]

\* C11: every payload fetch returns to main starts, after leading
\* whitespace, with "{" or "[" or with "<?xml", "<rss" or "<feed"; main hands
\* every payload it receives to a parser, parse_archive for the first two
\* shapes and parse_rss for the other three, so that no payload of another
\* shape reaches a parser or is left without one.
C11_ParsersGetClassifiedPayloads ==
    /\ pc = "fetch_returned" =>
          FirstToken(fetch_ret) \in {"{", "[", "<?xml", "<rss", "<feed"}
    /\ payload = NoBody <=> parser = "None"
    /\ parser = "parse_archive" => FirstToken(payload) \in {"{", "["}
    /\ parser = "parse_rss" => FirstToken(payload) \in {"<?xml", "<rss", "<feed"}
    /\ data # NoData => parser \in {"parse_archive", "parse_rss"}

\* C11 witness: the third candidate returned a payload that starts with a
\* newline and "<rss"; main handed it to parse_rss, which built the data.
C11_RssAfterWhitespaceWitness ==
    /\ cand = 3
    /\ parser = "parse_rss"
    /\ payload.lead = <<"\n", "<rss">>
    /\ data # NoData /\ data.source = FEED_URL

\* The src attribute of the first img tag of an HTML text that has one with
\* a value ("": there is none)
FirstImgSrc(tags) ==
    LET HasSrc(t) == t.name = "img" /\ \E i \in 1..Len(t.attrs) :
                        t.attrs[i][1] = "src" /\ t.attrs[i][2] # ""
        withSrc == SelectSeq(tags, HasSrc)
    IN  IF withSrc = <<>> THEN ""
        ELSE LET srcs == SelectSeq(withSrc[1].attrs, LAMBDA a : a[1] = "src")
             IN  srcs[1][2]

\* The url of the enclosure of an item, trimmed ("": no enclosure, or no url)
EnclosureUrl(it) == IF it.enclosure = "None" THEN "" ELSE strip(it.enclosure)

\* C12: the cover_image of the post of every RSS item is the enclosure's url
\* when there is an enclosure and its url is not empty after trimming, else
\* the src of the first img tag of the content:encoded body, else "".
C12_CoverImageChain ==
    data # NoData /\ payload.doc.kind = "xml" /\ payload.doc.channel =>
        \A j \in 1..Len(data.posts) :
            LET it == payload.doc.items[j]
            IN  data.posts[j].cover_image =
                    IF EnclosureUrl(it) # "" THEN EnclosureUrl(it)
                    ELSE FirstImgSrc(it.content.tags)

\* The first value of a chain that is there and not empty, else the default
RECURSIVE FirstNonEmpty(_, _)
FirstNonEmpty(chain, default) ==
    IF chain = <<>> THEN default
    ELSE IF Head(chain) \notin {"Missing", "None", ""} THEN Head(chain)
    ELSE FirstNonEmpty(Tail(chain), default)

\* C13: in the post of every object of a JSON archive, title is the title
\* field or else "Untitled", subtitle is subtitle, else description, else "",
\* and url is canonical_url, else https://drinkyouroj.substack.com/p/{slug}
\* for a slug that is there and not empty, else ""; the post has all five
\* fields and none of them is null or missing.
C13_ArchiveFallbackChains ==
    data # NoData /\ payload.doc.kind = "json_array" =>
        \A j \in 1..Len(data.posts) :
            LET it == payload.doc.items[j]
                post == data.posts[j]
                built == IF it.slug \in {"Missing", "None", ""} THEN ""
                         ELSE "https://drinkyouroj.substack.com/p/" \o it.slug
            IN  /\ DOMAIN post = {"title", "subtitle", "url", "date", "cover_image"}
                /\ post.title = FirstNonEmpty(<<it.title>>, "Untitled")
                /\ post.subtitle = FirstNonEmpty(<<it.subtitle, it.description>>, "")
                /\ post.url = FirstNonEmpty(<<it.canonical_url, built>>, "")
                /\ \A f \in DOMAIN post : post[f] \notin {"Missing", "None"}

\* C13 witness: the object {"title": null, "subtitle": "", "description":
\* "Desc A", "slug": "foo"} gave the title "Untitled", the subtitle of the
\* description and the url built from the slug.
C13_NullTitleSlugWitness ==
    /\ data # NoData /\ payload.doc.kind = "json_array"
    /\ Len(payload.doc.items) = 1
    /\ payload.doc.items[1].title = "None"
    /\ payload.doc.items[1].subtitle = ""
    /\ payload.doc.items[1].canonical_url = "Missing"
    /\ data.posts[1].title = "Untitled"
    /\ data.posts[1].subtitle = "Desc A"
    /\ data.posts[1].url = "https://drinkyouroj.substack.com/p/foo"

\* C14: while two runs are in write_json at once, OUT_PATH holds at every
\* moment a complete snapshot, the one that was there before or the one of
\* either run (or nothing, when there was none before), never an empty, a
\* partial or a mixed file, and the write step of neither run fails.
C14_OverlappingRunsSafe ==
    /\ fs[OUT_PATH].state \in {"absent", "complete"}
    /\ \/ fs[OUT_PATH] = before
       \/ \E r \in DOMAIN runs : fs[OUT_PATH] = Complete(runs[r].data)
    /\ \A r \in DOMAIN runs : runs[r].ret # 1

\* A snapshot without its updated_at
Untimed(snapshot) ==
    [f \in DOMAIN snapshot \ {"updated_at"} |-> snapshot[f]]

\* C15: the snapshot a run writes is, in every field but updated_at, a
\* function of the upstream responses alone: it is what the parsers make, at
\* any one fixed time, of the body of the response fetch returned last,
\* whatever jitter the sleeps drew, however many attempts and candidates came
\* before, and whatever the clock read.  Two runs that receive the same
\* responses therefore write snapshots that differ in updated_at at most.
C15_SnapshotFunctionOfResponses ==
    /\ [][pc = "fetch_returned" /\ data' # NoData =>
            /\ payload' = last_result.body
            /\ Untimed(data') =
                  Untimed(parse(last_result.body, "1970-01-01T00:00:00+00:00").value)]_vars
    /\ [](data # NoData =>
            Untimed(data) = Untimed(parse(payload, "1970-01-01T00:00:00+00:00").value))
    /\ [](renamed => fs[OUT_PATH] = Complete(data))

\* C15 witness: a run wrote, at the later of the two clock readings, the
\* snapshot of a feed that has a post without a date, which the third
\* candidate returned.
C15_LaterRunSameSnapshotWitness ==
    /\ pc = "done" /\ renamed
    /\ cand = 3
    /\ fs[OUT_PATH].doc.updated_at = "2026-11-01T06:00:01+00:00"
    /\ \E j \in 1..Len(fs[OUT_PATH].doc.posts) : fs[OUT_PATH].doc.posts[j].date = ""

\* C16: a run of main() that is not killed makes at most 4 x 3 = 12 runs of
\* curl, one per step and at most 3 for each of at most 4 calls of fetch,
\* each call on another candidate, and it ends: main returns 0 or 1.
C16_TerminatesWithinTwelveAttempts ==
    /\ [](/\ nattempts <= 12
          /\ Len(calls) <= 4
          /\ attempt < 3
          /\ nattempts <= 3 * Len(calls)
          /\ pc \in {"sleep", "fetch_returned", "fetch_raised"} =>
                nattempts <= 3 * (Len(calls) - 1) + attempt + 1
          /\ \A i, j \in 1..Len(calls) : calls[i] = calls[j] => i = j)
    /\ [][nattempts' \in {nattempts, nattempts + 1}]_vars
    /\ <>[](pc = "done" /\ ret \in {0, 1})

\* C16 witness: main returned 1 after twelve runs of curl, three for each of
\* the four candidates.
C16_TwelveAttemptsWitness ==
    /\ pc = "done" /\ ret = 1
    /\ nattempts = 12
    /\ Len(calls) = 4

\* C17: when the loop of main ends without data, an exception has been
\* recorded and it is the one caught while the last candidate, the proxied
\* feed URL, was processed; it is the exception main prints before it
\* returns 1.
C17_SurfacedErrorIsLastCandidates ==
    /\ pc = "after_loop" /\ data = NoData =>
          /\ last_error # NoExc
          /\ last_cand = 4
          /\ calls[last_cand] = "https://r.jina.ai/http://drinkyouroj.substack.com/feed"
    /\ pc = "done" /\ data = NoData =>
          /\ ret = 1
          /\ diag # NoExc /\ diag = last_error
          /\ last_cand = 4
    /\ last_cand # 0 => last_error # NoExc /\ last_cand <= Len(calls)

\* C17 witness: main printed the ParseError of the payload the last candidate
\* returned, and returned 1.
C17_LastCandidateParseErrorWitness ==
    /\ pc = "done" /\ ret = 1 /\ data = NoData
    /\ diag.cls = "ParseError"
    /\ last_cand = 4 /\ cand = 4
    /\ payload.lead = <<"<rss">>

\* A payload without entries: an empty JSON array, an RSS channel without
\* items, or an XML document with neither a channel nor Atom entries
ZeroEntries(body) ==
    /\ body.doc.kind \in {"json_array", "xml"}
    /\ body.doc.items = <<>>

\* C18: a payload without entries that parses makes its candidate the
\* winner: the step that parses it leaves the loop with data whose posts are
\* empty and calls fetch on no further candidate; main then writes that
\* snapshot over the previous one and returns 0, unless a step of write_json
\* itself fails.
C18_ZeroEntriesWin ==
    /\ [][pc = "fetch_returned" /\ ZeroEntries(fetch_ret) /\ pc' # "killed"
            /\ parse(fetch_ret, "2026-11-01T06:00:00+00:00").exc = NoExc =>
              /\ pc' = "after_loop"
              /\ data' # NoData /\ data'.posts = <<>>
              /\ calls' = calls /\ cand' = cand]_vars
    /\ [](data # NoData /\ ZeroEntries(payload) =>
            /\ data.posts = <<>>
            /\ pc \in {"after_loop", "mkdir", "open", "write", "replace", "done", "killed"}
            /\ pc = "done" => \/ ret = 0 /\ fs[OUT_PATH] = Complete(data)
                              \/ ret = 1 /\ diag.cls \in {"PermissionError", "OSError"})

\* C18 witness: the first candidate returned an empty JSON array; main wrote
\* a snapshot without posts over the previous one and returned 0.
C18_EmptyArrayReplacesSnapshotWitness ==
    /\ pc = "done" /\ ret = 0
    /\ calls = <<ARCHIVE_URL>>
    /\ payload.doc = JsonArray(<<>>)
    /\ before = Complete(PrevSnapshot)
    /\ fs[OUT_PATH].state = "complete" /\ fs[OUT_PATH].doc.posts = <<>>

\* A body that holds "Just a moment" somewhere or starts, before any
\* stripping, with "<!DOCTYPE" or "<html"
LooksLikeChallenge(body) ==
    \/ body.marker
    \/ body.lead # <<>> /\ body.lead[1] \in {"<!DOCTYPE", "<html"}

\* C19: fetch (max_retries >= 1) never returns a body that holds "Just a
\* moment" or starts with "<!DOCTYPE" or "<html", be it well-formed JSON or
\* XML of an accepted leading shape: an attempt that receives one is retried
\* after a sleep, and on the last attempt fetch raises an HTTPError of
\* status 403.
C19_ChallengeBodiesNeverReturned ==
    /\ pc = "fetch_returned" => ~LooksLikeChallenge(fetch_ret)
    /\ max_retries >= 1 /\ last_result.kind = "exit" /\ last_result.rc = 0
       /\ LooksLikeChallenge(last_result.body) =>
          /\ pc = "sleep" => attempt < max_retries - 1 /\ wait_time > 0
          /\ pc # "sleep" =>
                /\ pc = "fetch_raised"
                /\ attempt = max_retries - 1
                /\ fetch_exc = Exc("HTTPError", 403, attempt)

\* C19 witness: the third attempt of three received a well-formed JSON array
\* that starts with "[" and holds "Just a moment", and fetch raised the
\* HTTPError.
C19_MarkerInJsonArrayWitness ==
    /\ pc = "fetch_raised"
    /\ max_retries = 3 /\ attempt = 2
    /\ last_result.body.marker
    /\ last_result.body.lead = <<"[">>
    /\ last_result.body.doc = JsonArray(<<J1, J2>>)
    /\ fetch_exc.code = 403

\* What main does with a payload that starts, after whitespace, with "{":
\* it calls parse_archive, which raises; no data comes of it, the exception is
\* recorded for the candidate, and the step that parses it calls fetch on the
\* next candidate or, after the last one, leaves the loop
ObjectPayloadFails ==
    /\ [](FirstToken(payload) = "{" =>
            /\ parser = "parse_archive"
            /\ data = NoData /\ ~renamed
            /\ last_error # NoExc
            /\ pc = "done" => ret = 1)
    /\ [][pc = "fetch_returned" /\ FirstToken(fetch_ret) = "{" /\ pc' # "killed" =>
            /\ payload' = fetch_ret
            /\ last_error'.cls \in {"TypeError", "KeyError", "JSONDecodeError"}
            /\ last_cand' = cand
            /\ IF cand < 4
               THEN /\ pc' = "attempt" /\ attempt' = 0 /\ cand' = cand + 1
                    /\ calls' = Append(calls, ClaimedOrder[cand + 1])
               ELSE pc' = "after_loop" /\ calls' = calls]_vars

\* C20 as stated: every body curl delivers (exit 0) whose first byte after
\* whitespace is "{" is returned by fetch on that attempt, without a retry
\* (unless the run is killed there); main hands it to parse_archive and no
\* snapshot comes of it.
C20_EveryObjectBodyAccepted ==
    /\ last_result.kind = "exit" /\ last_result.rc = 0
       /\ FirstToken(last_result.body) = "{" =>
          pc \in {"fetch_returned", "killed"} /\ fetch_ret = last_result.body
    /\ FirstToken(payload) = "{" => parser = "parse_archive" /\ data = NoData

\* C20, amended: a body whose first byte after whitespace is "{" and that
\* does not hold "Just a moment" is returned by fetch on the attempt that
\* receives it, without a retry (one that holds the marker is retried as a
\* challenge page and never returned); main hands the payload to
\* parse_archive, which always raises, so that no snapshot comes of it and
\* main moves to the next candidate as after any parse error.
C20_ObjectBodyWithoutMarkerAccepted ==
    /\ [](last_result.kind = "exit" /\ last_result.rc = 0
          /\ FirstToken(last_result.body) = "{" =>
             IF last_result.body.marker
             THEN pc \in {"sleep", "fetch_raised", "killed"}
             ELSE pc \in {"fetch_returned", "killed"}
                  /\ (pc = "fetch_returned" => fetch_ret = last_result.body))
    /\ ObjectPayloadFails

\* C20 witness: the first candidate returned, on its first attempt, a JSON
\* object after a newline; parse_archive raised a TypeError and fetch is
\* about to run on the second candidate.
C20_ObjectThenNextCandidateWitness ==
    /\ pc = "attempt" /\ attempt = 0 /\ nsleeps = 0
    /\ cand = 2 /\ last_cand = 1
    /\ payload.lead = <<"\n", "{">>
    /\ payload.doc = JsonObject
    /\ parser = "parse_archive"
    /\ last_error.cls = "TypeError"

====
